---- MODULE Spec2Model ----
(***************************************************************************)
(* Model of the Gemini Code Assist adapter client                          *)
(* (gemini-code-assist-adapter/src/lib.rs, models.rs, error.rs).           *)
(*                                                                         *)
(* One CodeAssistClient is driven by one caller flow.  The variables `op`, *)
(* `request`, `reply`, `result` and `log` describe the call that is in     *)
(* flight or that returned last; they are overwritten when the next call   *)
(* starts.  A stream returned by generate_content_stream is consumed by    *)
(* StreamNext and released when the caller starts another call.            *)
(*                                                                         *)
(* The log capture queue of the application (src/logger.rs) is process-wide *)
(* state of its own: LoggerSpec runs threads that call GlobalLogger::log   *)
(* and pop_logs, and leaves the client alone; Spec leaves the logger alone.*)
(***************************************************************************)
EXTENDS Integers, Sequences, FiniteSets, TLC

VARIABLES
    auth_token,   \* CodeAssistClient.auth_token
    project_id,   \* CodeAssistClient.project_id
    model,        \* CodeAssistClient.model
    op,           \* the operation called last
    pc,           \* "idle", or the await point onboard_user is suspended at
    lro,          \* onboard_user: local `lro`
    attempts,     \* onboard_user: local `attempts`
    request,      \* what the call in `op` put in its request body
    arg,          \* the `request` argument of the generation call in `op`
    reply,        \* the last HTTP exchange outcome seen by the call in `op`
    result,       \* the value the call in `op` returned, NoResult before that
    log,          \* "req" / "wait" events of the call in `op`, in order
    applied,      \* the caller: the load_code_assist result it applied
    uuids,        \* how many identifiers uuid::Uuid::new_v4 has handed out
    stream        \* the stream returned by generate_content_stream

VARIABLES
    LOG_RECEIVER, \* whether the static LOG_RECEIVER holds the receiver
    boxed_logger, \* the GlobalLogger installed by init, with inner's filter
    channel,      \* the events sent on the mpsc channel and not yet received
    sender,       \* GlobalLogger.sender: the thread that holds the mutex
    receiver,     \* the mutex in LOG_RECEIVER: the thread that holds it
    console,      \* the messages inner (env_logger) has written
    tpc,          \* each thread's position in log or pop_logs
    records,      \* per logging thread, the levels of the records it logged
    logs,         \* pop_logs: local `logs` of each calling thread
    before,       \* per pop_logs call, the events queued when it began
    received,     \* the events try_recv has handed out, in that order
    returned      \* the values pop_logs calls have returned, in that order

logger_vars == <<LOG_RECEIVER, boxed_logger, channel, sender, receiver,
                 console, tpc, records, logs, before, received, returned>>

client_vars == <<auth_token, project_id, model, op, pc, lro, attempts,
                 request, arg, reply, result, log, applied, uuids, stream>>

vars == <<auth_token, project_id, model, op, pc, lro, attempts,
          request, arg, reply, result, log, applied, uuids, stream,
          logger_vars>>

(***************************************************************************)
(* Bounds of the model.                                                    *)
(***************************************************************************)
MaxWire == 3          \* items the event stream delivers in one streaming call
MaxCalls == 2         \* generation calls in one session
MaxRecords == 2       \* records passed to GlobalLogger::log, by all threads
MaxPops == 2          \* pop_logs calls, of all threads together

(***************************************************************************)
(* Program constants.                                                      *)
(***************************************************************************)
MaxRetries == 5       \* `attempts < 5`

\* "models/" as a sequence of characters
ModelsPrefix == <<"m", "o", "d", "e", "l", "s", "/">>

\* "models/gemini-3-flash-preview", the model set by new()
DefaultModel ==
    ModelsPrefix \o <<"g", "e", "m", "i", "n", "i", "-", "3", "-", "f", "l",
                      "a", "s", "h", "-", "p", "r", "e", "v", "i", "e", "w">>

(***************************************************************************)
(* Input domains.                                                          *)
(***************************************************************************)
Tokens == {"tok"}
Projects == {"", "p1", "p2"}
ModelNames ==
    { <<"g", "2">>,
      ModelsPrefix \o <<"g", "2">>,
      ModelsPrefix \o ModelsPrefix \o <<"g", "2">>,
      <<"x", "/">> \o ModelsPrefix \o <<"g", "2">> }
Statuses == {200, 503}
Responses == {"r1", "r2"}       \* GenerationResponse values

(***************************************************************************)
(* Option<T>                                                               *)
(***************************************************************************)
None(d) == [some |-> FALSE, v |-> d]
Some(x) == [some |-> TRUE, v |-> x]

unwrap_or(opt, d) == IF opt.some THEN opt.v ELSE d

(***************************************************************************)
(* models.rs: the documents the backend returns.                           *)
(***************************************************************************)
\* ProjectInfo { id }
ProjectInfo == [id : Projects]
NoProjectInfo == [id |-> ""]

\* OnboardUserResponse { cloudaicompanion_project: Option<ProjectInfo> }
OnboardUserResponse ==
    [cloudaicompanion_project :
        {None(NoProjectInfo)} \cup {Some(p) : p \in ProjectInfo}]
NoOnboardUserResponse == [cloudaicompanion_project |-> None(NoProjectInfo)]

\* LroResponse { name, done: Option<bool>, response: Option<OnboardUserResponse> }
LroResponse ==
    [name : {"op"},
     done : {None(FALSE), Some(FALSE), Some(TRUE)},
     response : {None(NoOnboardUserResponse)}
                    \cup {Some(r) : r \in OnboardUserResponse}]
NoLro == [name |-> "", done |-> None(FALSE),
          response |-> None(NoOnboardUserResponse)]

\* LoadCodeAssistResponse { cloudaicompanion_project: Option<String>, .. }
LoadCodeAssistResponse ==
    [cloudaicompanion_project : {None("")} \cup {Some(p) : p \in Projects}]

\* CodeAssistResponseEnvelope { response: GenerationResponse, .. }
CodeAssistResponseEnvelope == [response : Responses]

(***************************************************************************)
(* HTTP replies.  A body is what the transport delivers: a JSON document   *)
(* of the endpoint's shape, a text that is not such a document, or a body  *)
(* whose read fails.                                                       *)
(***************************************************************************)
Unreadable == [shape |-> "unreadable"]
Garbage == [shape |-> "garbage"]
Doc(shape, d) == [shape |-> shape, doc |-> d]

OnboardBodies == {Unreadable, Garbage} \cup {Doc("lro", d) : d \in LroResponse}
LoadBodies ==
    {Unreadable, Garbage} \cup {Doc("load", d) : d \in LoadCodeAssistResponse}
GenerateBodies ==
    {Unreadable, Garbage}
        \cup {Doc("envelope", d) : d \in CodeAssistResponseEnvelope}
EventStreamBody == [shape |-> "event-stream"]

NetErr == [kind |-> "net_err"]
NoReply == [kind |-> "none"]
Http(s, b) == [kind |-> "http", status |-> s, body |-> b]
Replies(bodies) == {NetErr} \cup {Http(s, b) : s \in Statuses, b \in bodies}

\* the replies to streamGenerateContent: a success carries the event stream
StreamReplies ==
    {NetErr}
        \cup {Http(s, EventStreamBody) : s \in {c \in Statuses : c >= 200 /\ c <= 299}}
        \cup {Http(s, b) : s \in {c \in Statuses : c < 200 \/ c > 299},
                          b \in {Unreadable, Garbage}}

\* StatusCode::is_success
is_success(status) == status >= 200 /\ status <= 299

(***************************************************************************)
(* error.rs: AdapterError, and Result<T, AdapterError>.                    *)
(* A message is the sequence of the pieces format! joins: literals and     *)
(* body texts.                                                             *)
(***************************************************************************)
Lit(s) == [piece |-> "lit", lit |-> s]
Text(b) == [piece |-> "text", body |-> b]

\* response.text().await.unwrap_or_default()
text_or_default(body) ==
    IF body = Unreadable THEN Lit("") ELSE Text(body)

RequestFailed == [type |-> "RequestFailed"]
SerdeError == [type |-> "SerdeError"]
StreamError == [type |-> "StreamError"]
ApiError(code, message) ==
    [type |-> "ApiError", code |-> code, message |-> message]

NoResult == [returned |-> FALSE]
Ok(v) == [returned |-> TRUE, ok |-> TRUE, value |-> v]
Err(e) == [returned |-> TRUE, ok |-> FALSE, err |-> e]

\* Response::json: the body read or the decoding may fail, both are a
\* reqwest::Error
json(body, shape) ==
    IF body.shape = shape THEN Ok(body.doc) ELSE Err(RequestFailed)

(***************************************************************************)
(* lib.rs: helpers.                                                        *)
(***************************************************************************)
starts_with(s, prefix) ==
    Len(s) >= Len(prefix) /\ SubSeq(s, 1, Len(prefix)) = prefix

\* mutant: the first characters are dropped without looking at them
sanitize_model_name_unchecked(m) ==
    SubSeq(m, Len(ModelsPrefix) + 1, Len(m))

\* mutant: the prefix is left in place
sanitize_model_name_keeps(m) == m

\* model.strip_prefix("models/").unwrap_or(model)
sanitize_model_name(m) ==
    IF starts_with(m, ModelsPrefix)
    THEN SubSeq(m, Len(ModelsPrefix) + 1, Len(m))
    ELSE m

NoRequest == [sent |-> FALSE]
NoStream == [open |-> FALSE]

\* the request body of onboard_user
OnboardUserRequest(project) ==
    [sent |-> TRUE, tier_id |-> "free-tier",
     cloudaicompanion_project |-> Some(project)]

\* the request body of load_code_assist
LoadCodeAssistRequest(project) ==
    [sent |-> TRUE, cloudaicompanion_project |-> Some(project)]

\* uuid::Uuid::new_v4 when n identifiers were handed out before: a value
\* that none of the earlier draws returned
new_v4(n) == n + 1

\* the JSON objects serde_json::to_value gives for the caller's
\* GenerateContentRequest: its fields, the optional ones only when set
GenerateContentRequests ==
    {[contents |-> "c1"],
     [contents |-> "c2", system_instruction |-> "s1"]}

\* the request the caller flow of Spec passes to its generation calls
SessionRequests == {[contents |-> "c1"]}

\* serde_json::Map::insert: the object with key set to value
insert(obj, key, value) ==
    [k \in DOMAIN obj \cup {key} |-> IF k = key THEN value ELSE obj[k]]

\* mutant: the model of new() is sent whatever the client holds
CodeAssistEnvelope_default_model(m, project, req, n) ==
    [sent |-> TRUE,
     model |-> sanitize_model_name(DefaultModel),
     project |-> project,
     user_prompt_id |-> Some(new_v4(n + 1)),
     request |-> insert(req, "session_id", new_v4(n))]

\* mutant: the session id is reused as the user prompt id
CodeAssistEnvelope_one_id(m, project, req, n) ==
    [sent |-> TRUE,
     model |-> sanitize_model_name(m),
     project |-> project,
     user_prompt_id |-> Some(new_v4(n)),
     request |-> insert(req, "session_id", new_v4(n))]

\* the envelope of generate_content for the caller's request req, built
\* when n identifiers were handed out before: session_id is drawn first and
\* inserted into the request body, user_prompt_id second
CodeAssistEnvelope(m, project, req, n) ==
    [sent |-> TRUE,
     model |-> sanitize_model_name(m),
     project |-> project,
     user_prompt_id |-> Some(new_v4(n + 1)),
     request |-> insert(req, "session_id", new_v4(n))]

\* mutant: the streaming call sends the session id alone as its body
CodeAssistEnvelopeStream_bare(m, project, req, n) ==
    [sent |-> TRUE,
     model |-> sanitize_model_name(m),
     project |-> project,
     user_prompt_id |-> Some(new_v4(n + 1)),
     request |-> [session_id |-> new_v4(n)]]

\* the envelope of generate_content_stream, built by its own copy of the
\* same statements
CodeAssistEnvelopeStream(m, project, req, n) ==
    [sent |-> TRUE,
     model |-> sanitize_model_name(m),
     project |-> project,
     user_prompt_id |-> Some(new_v4(n + 1)),
     request |-> insert(req, "session_id", new_v4(n))]

\* mutant: a call that failed is sent a second time
send_once_retry(res) ==
    IF res.ok THEN <<"req">> ELSE <<"req", "req">>

\* the requests of a call that has one .send() and returns res
send_once(res) == <<"req">>

(***************************************************************************)
(* The log capture queue (logger.rs).  Logging threads and the threads     *)
(* that call pop_logs; a record is known by the thread that logged it and  *)
(* its number in that thread, which stand for its formatted message.       *)
(***************************************************************************)
Loggers == {"t1", "t2"}
Poppers == {"u1", "u2"}

\* log::Level, ordered as the log crate orders it
Level == [Error |-> 1, Warn |-> 2, Info |-> 3, Debug |-> 4, Trace |-> 5]

\* the levels of the records logged, and the filters of env_logger
Levels == {Level.Error, Level.Warn, Level.Info}
Filters == {Level.Error, Level.Info}

LogEvent(level, message) == [level |-> level, message |-> message]

NoLogger == [installed |-> FALSE]
GlobalLogger(filter) == [installed |-> TRUE, filter |-> filter]

\* the statics before init has run, and no thread in a call
LoggerStart ==
    /\ LOG_RECEIVER = FALSE
    /\ boxed_logger = NoLogger
    /\ channel = <<>>
    /\ sender = "free"
    /\ receiver = "free"
    /\ console = {}
    /\ tpc = [t \in Loggers \cup Poppers |-> "idle"]
    /\ records = [t \in Loggers |-> <<>>]
    /\ logs = [u \in Poppers |-> <<>>]
    /\ before = [u \in Poppers |-> {}]
    /\ received = <<>>
    /\ returned = <<>>

(***************************************************************************)
(* CodeAssistClient::new: the state after construction.                    *)
(***************************************************************************)
Init ==
    /\ auth_token \in Tokens
    /\ project_id \in Projects
    /\ model = DefaultModel
    /\ op = "new"
    /\ pc = "idle"
    /\ lro = NoLro
    /\ attempts = 0
    /\ request = NoRequest
    /\ arg = None("")
    /\ reply = NoReply
    /\ result = NoResult
    /\ log = <<>>
    /\ applied = None("")
    /\ uuids = 0
    /\ stream = NoStream
    /\ LoggerStart

(***************************************************************************)
(* CodeAssistClient::set_project_id and with_model.                        *)
(***************************************************************************)
set_project_id(p) ==
    /\ pc = "idle"
    /\ project_id' = p
    /\ op' = "set_project_id"
    /\ request' = NoRequest /\ reply' = NoReply /\ result' = NoResult
    /\ arg' = None("")
    /\ log' = <<>> /\ lro' = NoLro /\ attempts' = 0 /\ stream' = NoStream
    /\ applied' = IF op = "load_code_assist" /\ result = Ok(p)
                  THEN Some(p) ELSE None("")
    /\ UNCHANGED <<logger_vars, auth_token, model, pc, uuids>>

with_model(m) ==
    /\ pc = "idle"
    /\ model' = m
    /\ op' = "with_model"
    /\ request' = NoRequest /\ reply' = NoReply /\ result' = NoResult
    /\ arg' = None("")
    /\ log' = <<>> /\ lro' = NoLro /\ attempts' = 0 /\ stream' = NoStream
    /\ applied' = None("")
    /\ UNCHANGED <<logger_vars, auth_token, project_id, pc, uuids>>

(***************************************************************************)
(* CodeAssistClient::load_code_assist.                                     *)
(***************************************************************************)
\* mutant: the tentative identifier wins over the backend's
effective_project_tentative(data, tentative) == tentative

\* data.cloudaicompanion_project.unwrap_or(self.project_id.clone())
effective_project(data, tentative) ==
    unwrap_or(data.cloudaicompanion_project, tentative)

\* the value load_code_assist returns on reply r
load_code_assist_result(r, tentative) ==
    IF r.kind = "net_err" THEN Err(RequestFailed)
    ELSE IF ~is_success(r.status)
    THEN Err(ApiError(r.status,
                      <<Lit("Handshake failed: "), text_or_default(r.body)>>))
    ELSE LET data == json(r.body, "load")
         IN  IF ~data.ok THEN data
             ELSE Ok(effective_project(data.value, tentative))

\* mutant: the effective project is stored in the client
load_code_assist_stores(r) ==
    /\ pc = "idle"
    /\ op' = "load_code_assist"
    /\ request' = LoadCodeAssistRequest(project_id)
    /\ arg' = None("")
    /\ log' = send_once(load_code_assist_result(r, project_id))
    /\ reply' = r
    /\ result' = load_code_assist_result(r, project_id)
    /\ project_id' = IF load_code_assist_result(r, project_id).ok
                     THEN load_code_assist_result(r, project_id).value
                     ELSE project_id
    /\ lro' = NoLro /\ attempts' = 0 /\ stream' = NoStream
    /\ UNCHANGED <<logger_vars, auth_token, model, pc, applied, uuids>>

load_code_assist(r) ==
    /\ pc = "idle"
    /\ op' = "load_code_assist"
    /\ request' = LoadCodeAssistRequest(project_id)
    /\ arg' = None("")
    /\ log' = send_once(load_code_assist_result(r, project_id))
    /\ reply' = r
    /\ result' = load_code_assist_result(r, project_id)
    /\ lro' = NoLro /\ attempts' = 0 /\ stream' = NoStream
    /\ UNCHANGED <<logger_vars, auth_token, project_id, model, pc, applied, uuids>>

(***************************************************************************)
(* CodeAssistClient::onboard_user.  The call is suspended at its await     *)
(* points: pc = "sleep" before tokio::time::sleep, pc = "resend" before    *)
(* the request of the loop body.                                           *)
(***************************************************************************)
\* mutant: one turn too many
keep_polling_off_by_one(l, a) == l.done # Some(TRUE) /\ a <= MaxRetries

\* mutant: the completion flag is not looked at
keep_polling_ignores_done(l, a) == a < MaxRetries

\* the loop condition: lro.done != Some(true) && attempts < 5
keep_polling(l, a) == l.done # Some(TRUE) /\ a < MaxRetries

\* mutant: the confirmed identifier is not stored
confirmed_project_not_stored(l, current) == current

\* the project identifier the client holds after the loop
confirmed_project(l, current) ==
    IF l.response.some /\ l.response.v.cloudaicompanion_project.some
    THEN l.response.v.cloudaicompanion_project.v.id
    ELSE current

\* mutant: an exhausted budget is an error
onboard_user_return_timeout_err(l) ==
    IF l.done = Some(TRUE) THEN Ok("()") ELSE Err(RequestFailed)

\* the value returned after the loop
onboard_user_return(l) == Ok("()")

\* .send().await?.json().await?
onboard_exchange(r) ==
    IF r.kind = "net_err" THEN Err(RequestFailed) ELSE json(r.body, "lro")

\* mutant: the identifier of a record is stored as soon as it is received
onboard_continue_stores_early(r, a) ==
    LET parsed == onboard_exchange(r)
    IN  /\ reply' = r
        /\ IF ~parsed.ok
           THEN /\ result' = parsed
                /\ pc' = "idle"
                /\ UNCHANGED <<lro, attempts, project_id>>
           ELSE /\ lro' = parsed.value
                /\ attempts' = a
                /\ project_id' = confirmed_project(parsed.value, project_id)
                /\ IF keep_polling(parsed.value, a)
                   THEN /\ pc' = "sleep"
                        /\ result' = NoResult
                   ELSE /\ pc' = "idle"
                        /\ result' = onboard_user_return(parsed.value)

\* what follows an exchange: the error return, the next turn of the loop,
\* or the code after the loop
onboard_continue(r, a) ==
    LET parsed == onboard_exchange(r)
    IN  /\ reply' = r
        /\ IF ~parsed.ok
           THEN /\ result' = parsed
                /\ pc' = "idle"
                /\ UNCHANGED <<lro, attempts, project_id>>
           ELSE /\ lro' = parsed.value
                /\ attempts' = a
                /\ IF keep_polling(parsed.value, a)
                   THEN /\ pc' = "sleep"
                        /\ result' = NoResult
                        /\ UNCHANGED project_id
                   ELSE /\ pc' = "idle"
                        /\ project_id' =
                               confirmed_project(parsed.value, project_id)
                        /\ result' = onboard_user_return(parsed.value)

onboard_user(r) ==
    /\ pc = "idle"
    /\ op' = "onboard_user"
    /\ request' = OnboardUserRequest(project_id)
    /\ arg' = None("")
    /\ log' = <<"req">>
    /\ stream' = NoStream
    /\ applied' = None("")
    /\ onboard_continue(r, 0)
    /\ UNCHANGED <<logger_vars, auth_token, model, uuids>>

onboard_user_sleep ==
    /\ pc = "sleep"
    /\ pc' = "resend"
    /\ log' = Append(log, "wait")
    /\ UNCHANGED <<logger_vars, auth_token, project_id, model, op, lro, attempts,
                   request, arg, reply, result, applied, uuids, stream>>

onboard_user_resend(r) ==
    /\ pc = "resend"
    /\ log' = Append(log, "req")
    /\ onboard_continue(r, attempts + 1)
    /\ UNCHANGED <<logger_vars, auth_token, model, op, request, arg, applied, uuids,
                   stream>>

(***************************************************************************)
(* CodeAssistClient::generate_content.                                     *)
(***************************************************************************)
\* the value generate_content returns on reply r
generate_content_result(r) ==
    IF r.kind = "net_err" THEN Err(RequestFailed)
    ELSE IF ~is_success(r.status)
    THEN Err(ApiError(r.status, <<text_or_default(r.body)>>))
    ELSE LET envelope_resp == json(r.body, "envelope")
         IN  IF ~envelope_resp.ok THEN envelope_resp
             ELSE Ok(envelope_resp.value.response)

generate_content(r, req) ==
    /\ pc = "idle"
    /\ uuids < 2 * MaxCalls
    /\ op' = "generate_content"
    /\ arg' = Some(req)
    /\ request' = CodeAssistEnvelope(model, project_id, req, uuids)
    /\ uuids' = uuids + 2
    /\ log' = send_once(generate_content_result(r))
    /\ reply' = r
    /\ result' = generate_content_result(r)
    /\ lro' = NoLro /\ attempts' = 0 /\ stream' = NoStream
    /\ applied' = None("")
    /\ UNCHANGED <<logger_vars, auth_token, project_id, model, pc>>

(***************************************************************************)
(* CodeAssistClient::generate_content_stream and the stream it returns.    *)
(* The event stream delivers items: an event with its data, or an error of *)
(* the event stream.  `wire` holds the items delivered so far, `out` the   *)
(* elements the consumer received, `ended` whether it received the end.    *)
(***************************************************************************)
Terminator == "[DONE]"

\* the text of a response envelope carrying response r
EnvelopeText(r) == "{\"response\":" \o r \o "}"

EventData == {Terminator, "{"} \cup {EnvelopeText(r) : r \in Responses}

Event(data) == [ok |-> TRUE, data |-> data]
EventError == [ok |-> FALSE]
Items == {EventError} \cup {Event(d) : d \in EventData}

\* serde_json::from_str::<CodeAssistResponseEnvelope>
from_str(data) ==
    IF \E r \in Responses : EnvelopeText(r) = data
    THEN Ok([response |-> CHOOSE r \in Responses : EnvelopeText(r) = data])
    ELSE Err(SerdeError)

\* mutant: the terminator is decoded like any other event
stream_map_no_filter(event_result) ==
    IF event_result.ok
    THEN LET envelope == from_str(event_result.data)
         IN  IF envelope.ok
             THEN Some(Ok(envelope.value.response))
             ELSE Some(envelope)
    ELSE Some(Err(StreamError))

\* mutant: an event that fails to decode is dropped
stream_map_drops_malformed(event_result) ==
    IF event_result.ok
    THEN LET envelope == from_str(event_result.data)
         IN  IF envelope.ok
             THEN Some(Ok(envelope.value.response))
             ELSE None(NoResult)
    ELSE Some(Err(StreamError))

\* the closure given to stream.map
stream_map(event_result) ==
    IF event_result.ok
    THEN IF event_result.data = Terminator
         THEN None(NoResult)
         ELSE LET envelope == from_str(event_result.data)
              IN  IF envelope.ok
                  THEN Some(Ok(envelope.value.response))
                  ELSE Some(envelope)
    ELSE Some(Err(StreamError))

OpenStream == [open |-> TRUE, wire |-> <<>>, out |-> <<>>, ended |-> FALSE]

\* the value generate_content_stream returns on reply r
generate_content_stream_result(r) ==
    IF r.kind = "net_err" THEN Err(RequestFailed)
    ELSE IF ~is_success(r.status)
    THEN Err(ApiError(r.status, <<text_or_default(r.body)>>))
    ELSE Ok("stream")

generate_content_stream(r, req) ==
    /\ pc = "idle"
    /\ uuids < 2 * MaxCalls
    /\ op' = "generate_content_stream"
    /\ arg' = Some(req)
    /\ request' = CodeAssistEnvelopeStream(model, project_id, req, uuids)
    /\ uuids' = uuids + 2
    /\ log' = send_once(generate_content_stream_result(r))
    /\ reply' = r
    /\ result' = generate_content_stream_result(r)
    /\ stream' = IF generate_content_stream_result(r).ok
                 THEN OpenStream ELSE NoStream
    /\ lro' = NoLro /\ attempts' = 0
    /\ applied' = None("")
    /\ UNCHANGED <<logger_vars, auth_token, project_id, model, pc>>

\* sequences of items of length 0..n
Batches(n) == UNION {[1..k -> Items] : k \in 0..n}

\* mutant: a poll pulls one item more than the element it returns needs
StreamNext_reads_ahead ==
    /\ stream.open
    /\ ~stream.ended
    /\ \E batch \in Batches(MaxWire - Len(stream.wire)), ends \in BOOLEAN :
          LET n == Len(batch)
          IN  /\ \A i \in 1..(n - 2) : ~stream_map(batch[i]).some
              /\ IF ends
                 THEN \A i \in 1..n : ~stream_map(batch[i]).some
                 ELSE n > 1 /\ stream_map(batch[n - 1]).some
              /\ stream' =
                    [open |-> TRUE,
                     wire |-> stream.wire \o batch,
                     out |-> IF ends THEN stream.out
                             ELSE Append(stream.out,
                                         stream_map(batch[n - 1]).v),
                     ended |-> ends]
    /\ UNCHANGED <<logger_vars, auth_token, project_id, model, op, pc, lro, attempts,
                   request, arg, reply, result, log, applied, uuids>>

\* One poll of the returned stream (.map(..).filter_map(..)): it pulls items
\* from the event stream while the closure maps them to None, and returns
\* the first Some, or the end once the event stream has ended.
StreamNext ==
    /\ stream.open
    /\ ~stream.ended
    /\ \E batch \in Batches(MaxWire - Len(stream.wire)), ends \in BOOLEAN :
          LET n == Len(batch)
          IN  /\ \A i \in 1..(n - 1) : ~stream_map(batch[i]).some
              /\ IF ends
                 THEN n > 0 => ~stream_map(batch[n]).some
                 ELSE n > 0 /\ stream_map(batch[n]).some
              /\ stream' =
                    [open |-> TRUE,
                     wire |-> stream.wire \o batch,
                     out |-> IF ends THEN stream.out
                             ELSE Append(stream.out, stream_map(batch[n]).v),
                     ended |-> ends]
    /\ UNCHANGED <<logger_vars, auth_token, project_id, model, op, pc, lro, attempts,
                   request, arg, reply, result, log, applied, uuids>>

(***************************************************************************)
(* The specification.                                                      *)
(***************************************************************************)
Next ==
    \/ \E p \in Projects : set_project_id(p)
    \/ \E m \in ModelNames : with_model(m)
    \/ \E r \in Replies(LoadBodies) : load_code_assist(r)
    \/ \E r \in Replies(OnboardBodies) : onboard_user(r)
    \/ onboard_user_sleep
    \/ \E r \in Replies(OnboardBodies) : onboard_user_resend(r)
    \/ \E r \in Replies(GenerateBodies), req \in SessionRequests :
          generate_content(r, req)
    \/ \E r \in StreamReplies, req \in SessionRequests :
          generate_content_stream(r, req)
    \/ StreamNext

Spec == Init /\ [][Next]_vars

\* The envelope construction on every caller request: the session state is
\* set by set_project_id and with_model, and either generation call is made
\* with any request.
EnvelopeNext ==
    \/ \E p \in Projects : set_project_id(p)
    \/ \E m \in ModelNames : with_model(m)
    \/ \E r \in Replies(GenerateBodies), req \in GenerateContentRequests :
          generate_content(r, req)
    \/ \E r \in StreamReplies, req \in GenerateContentRequests :
          generate_content_stream(r, req)

EnvelopeSpec == Init /\ [][EnvelopeNext]_vars

(***************************************************************************)
(* Properties.                                                             *)
(***************************************************************************)
\* the call in `op` received an HTTP reply with a status that is not 2xx
NonSuccessReply == reply.kind = "http" /\ ~is_success(reply.status)

\* message contains the text of body (a body that cannot be read has none)
ContainsBodyText(message, body) ==
    \/ body = Unreadable
    \/ \E i \in 1..Len(message) : message[i] = Text(body)

\* onboard_user received an operation record in its last exchange
RecordReceived ==
    op = "onboard_user" /\ reply.kind = "http" /\ reply.body.shape = "lro"

\* the last operation record reports completion
RecordDone == reply.body.doc.done = Some(TRUE)

\* the last operation record carries a confirmed project identifier
RecordHasProject ==
    /\ reply.body.doc.response.some
    /\ reply.body.doc.response.v.cloudaicompanion_project.some

RecordProject == reply.body.doc.response.v.cloudaicompanion_project.v.id

\* C1: whenever a call to the backend receives a response whose status is
\* not 2xx, the call returns AdapterError::ApiError with the code equal to
\* the status and a message that contains the body text.
C1_NonSuccessIsApiError ==
    NonSuccessReply =>
        /\ result.returned
        /\ ~result.ok
        /\ result.err.type = "ApiError"
        /\ result.err.code = reply.status
        /\ ContainsBodyText(result.err.message, reply.body)

\* C2: one onboard_user call sends at most 6 requests and waits at most 5
\* times, and every wait lies strictly between two consecutive requests.
C2_OnboardBounded ==
    op = "onboard_user" =>
        /\ Cardinality({i \in 1..Len(log) : log[i] = "req"}) <= 6
        /\ Cardinality({i \in 1..Len(log) : log[i] = "wait"}) <= 5
        /\ \A i \in 1..Len(log) :
              log[i] = "wait" =>
                  /\ i > 1 /\ log[i - 1] = "req"
                  /\ i < Len(log) => log[i + 1] = "req"
                  /\ i = Len(log) => pc = "resend"

C2_Witness ==
    /\ op = "onboard_user" /\ pc = "idle"
    /\ log = <<"req", "wait", "req", "wait", "req", "wait", "req", "wait",
               "req", "wait", "req">>

\* C3: when every exchange of onboard_user delivers an operation record and
\* every record reports incomplete (done false or absent), the call returns
\* with the sixth record, and it returns Ok(()).
C3_ExhaustionIsOk ==
    (RecordReceived /\ ~RecordDone) =>
        /\ attempts = MaxRetries => (pc = "idle" /\ result = Ok("()"))
        /\ pc = "idle" =>
              (attempts = MaxRetries /\ result = Ok("()") /\ Len(log) = 11)

C3_Witness ==
    /\ RecordReceived /\ pc = "idle"
    /\ reply.body.doc.done = None(FALSE)
    /\ attempts = MaxRetries
    /\ result = Ok("()")

\* C4: onboard_user stops polling with the first record whose completion
\* flag is true: the call has returned, and nothing is added to its log of
\* requests and waits afterwards; a record whose flag is false or absent
\* leads to a wait and then a resend while the budget is not used up.
C4_StopsWhenDone ==
    /\ [](/\ (RecordReceived /\ RecordDone) =>
                 (pc = "idle" /\ result.returned /\ log[Len(log)] = "req")
          /\ (RecordReceived /\ ~RecordDone /\ attempts < MaxRetries) =>
                 pc \in {"sleep", "resend"}
          /\ pc \in {"sleep", "resend"} =>
                 (RecordReceived /\ ~RecordDone /\ attempts < MaxRetries))
    /\ [][/\ pc = "sleep" => (pc' = "resend" /\ log' = Append(log, "wait"))
          /\ pc = "resend" => log' = Append(log, "req")
          /\ (RecordReceived /\ RecordDone /\ op' = "onboard_user") =>
                 (log' = log \/ log' = <<"req">>)]_vars

C4_Witness ==
    /\ RecordReceived /\ RecordDone
    /\ pc = "idle"
    /\ attempts = 2
    /\ log = <<"req", "wait", "req", "wait", "req">>

\* C5: when an exchange of onboard_user fails with a status that is not 2xx
\* or with a network error, the call has returned an error: no wait and no
\* further request follows.
C5_FailureIsImmediate ==
    (op = "onboard_user" /\ (reply.kind = "net_err" \/ NonSuccessReply)) =>
        (pc = "idle" /\ result.returned /\ ~result.ok)

\* C6: when onboard_user ends with a record that is done and carries a
\* confirmed project identifier, project_id is that identifier.
C6_ConfirmedProjectStored ==
    (RecordReceived /\ pc = "idle" /\ RecordDone /\ RecordHasProject) =>
        (project_id = RecordProject /\ result = Ok("()"))

C6_Witness ==
    /\ RecordReceived /\ pc = "idle" /\ RecordDone /\ RecordHasProject
    /\ request.cloudaicompanion_project.v # RecordProject
    /\ project_id = RecordProject

\* C7: when onboard_user uses up its budget without a record reporting
\* completion, it returns Ok(()) and leaves project_id, model and
\* auth_token as they were, whatever the last record contains.
C7_ExhaustionIsLogOnly ==
    [][(/\ op' = "onboard_user" /\ pc' = "idle"
        /\ reply'.kind = "http" /\ reply'.body.shape = "lro"
        /\ reply'.body.doc.done # Some(TRUE)) =>
           (/\ result' = Ok("()")
            /\ project_id' = project_id
            /\ model' = model
            /\ auth_token' = auth_token)]_vars

\* C8: a successful load_code_assist returns the backend's project
\* identifier when the response carries one and the tentative identifier
\* otherwise; after the caller applied the returned identifier, a response
\* without a project returns that identifier again.
C8_EffectiveProject ==
    (op = "load_code_assist" /\ result.returned /\ result.ok) =>
        LET supplied == reply.body.doc.cloudaicompanion_project
            tentative == request.cloudaicompanion_project.v
        IN  /\ supplied.some => result.value = supplied.v
            /\ ~supplied.some => result.value = tentative
            /\ (~supplied.some /\ applied.some) => result.value = applied.v

C8_Witness ==
    /\ op = "load_code_assist" /\ result.returned /\ result.ok
    /\ ~reply.body.doc.cloudaicompanion_project.some
    /\ applied.some
    /\ result.value = applied.v

\* the items of wire that are not terminator events
NonTerminator(wire) ==
    SelectSeq(wire, LAMBDA item : ~(item.ok /\ item.data = Terminator))

\* the element of the produced sequence that belongs to wire[i]
ElementIndex(wire, i) == Len(NonTerminator(SubSeq(wire, 1, i)))

WellFormed(item) ==
    item.ok /\ \E r \in Responses : item.data = EnvelopeText(r)

Malformed(item) ==
    item.ok /\ item.data # Terminator /\ ~WellFormed(item)

\* C9: the produced sequence has one element for each item on the wire that
\* is not a terminator event, in arrival order; a well-formed event yields
\* Ok with its response, and a terminator yields nothing and does not end
\* the sequence.
C9_OneElementPerEvent ==
    stream.open =>
        LET kept == NonTerminator(stream.wire)
        IN  /\ Len(stream.out) = Len(kept)
            /\ \A i \in 1..Len(kept) :
                  /\ WellFormed(kept[i]) =>
                        \E r \in Responses :
                            /\ kept[i].data = EnvelopeText(r)
                            /\ stream.out[i] = Ok(r)
                  /\ ~WellFormed(kept[i]) => ~stream.out[i].ok

C9_Witness ==
    /\ stream.open /\ stream.ended
    /\ stream.wire = <<Event(EnvelopeText("r1")), Event(EnvelopeText("r2")),
                       Event(Terminator)>>
    /\ stream.out = <<Ok("r1"), Ok("r2")>>

\* C10: an event whose data fails to decode yields Err(SerdeError) for its
\* own element only: every later well-formed event is still yielded as Ok.
C10_DecodeErrorContinues ==
    stream.open =>
        \A i \in 1..Len(stream.wire) :
            Malformed(stream.wire[i]) =>
                /\ ElementIndex(stream.wire, i) <= Len(stream.out)
                /\ stream.out[ElementIndex(stream.wire, i)] = Err(SerdeError)
                /\ \A j \in (i + 1)..Len(stream.wire) :
                      WellFormed(stream.wire[j]) =>
                          /\ ElementIndex(stream.wire, j) <= Len(stream.out)
                          /\ stream.out[ElementIndex(stream.wire, j)].ok

C10_Witness ==
    /\ stream.open
    /\ stream.wire = <<Event(EnvelopeText("r1")), Event("{"),
                       Event(EnvelopeText("r2"))>>
    /\ stream.out = <<Ok("r1"), Err(SerdeError), Ok("r2")>>

\* C11: an error of the event stream yields one Err(StreamError) element,
\* and that element is the last one: no element follows it.
C11_StreamErrorIsLast ==
    stream.open =>
        /\ Len(stream.out) >= Len(SelectSeq(stream.wire, LAMBDA item : ~item.ok))
        /\ \A i \in 1..(Len(stream.out) - 1) :
              stream.out[i] # Err(StreamError)

\* C12: a payload that is not a response envelope is reported as
\* AdapterError::SerdeError, in the reply body of generate_content as well
\* as in each streamed event.
C12_DecodeFailureIsSerdeError ==
    /\ (/\ op = "generate_content"
        /\ reply.kind = "http" /\ is_success(reply.status)
        /\ reply.body = Garbage) => result = Err(SerdeError)
    /\ stream.open =>
          \A i \in 1..Len(stream.wire) :
              Malformed(stream.wire[i]) =>
                  /\ ElementIndex(stream.wire, i) <= Len(stream.out)
                  /\ stream.out[ElementIndex(stream.wire, i)] = Err(SerdeError)

\* the calls that build an envelope
GenerationOps == {"generate_content", "generate_content_stream"}

\* m begins with "models/"
HasModelsPrefix(m) ==
    Len(m) >= 7 /\ \A k \in 1..7 : m[k] = ModelsPrefix[k]

\* m begins with "models/models/"
HasDoubledPrefix(m) ==
    Len(m) >= 14 /\ \A k \in 1..7 : m[k] = ModelsPrefix[k]
                                    /\ m[7 + k] = ModelsPrefix[k]

\* C13: the model placed in an envelope is the client's model without its
\* leading "models/" when the model begins with it, and the client's model
\* itself otherwise.
C13_SanitizeStripsPrefix ==
    op \in GenerationOps =>
        IF HasModelsPrefix(model)
        THEN ModelsPrefix \o request.model = model
        ELSE request.model = model

C13_Witness ==
    /\ op = "generate_content"
    /\ model = DefaultModel
    /\ request.model = <<"g", "e", "m", "i", "n", "i", "-", "3", "-", "f",
                         "l", "a", "s", "h", "-", "p", "r", "e", "v", "i",
                         "e", "w">>

\* C14 as stated: the model of every envelope does not begin with
\* "models/", whatever model strings were given to with_model.
C14_ModelNeverPrefixed ==
    op \in GenerationOps => ~HasModelsPrefix(request.model)

\* C14 as amended: the model of an envelope begins with "models/" only when
\* the client's model begins with "models/models/" (one prefix is removed).
C14_OnePrefixRemoved ==
    op \in GenerationOps =>
        (HasModelsPrefix(request.model) <=> HasDoubledPrefix(model))

C14_Witness ==
    /\ op = "generate_content_stream"
    /\ model = ModelsPrefix \o <<"g", "2">>
    /\ request.model = <<"g", "2">>

\* C15: the project identifier placed in an envelope is never the empty
\* string.
C15_ProjectNeverEmpty ==
    op \in GenerationOps => request.project # ""

\* C16: the session id and the user prompt id of one generation call differ
\* from each other, and neither was handed out before the call.
C16_FreshIdentifiers ==
    /\ [](op \in GenerationOps =>
             /\ request.user_prompt_id.some
             /\ request.user_prompt_id.v \in 1..uuids
             /\ request.request.session_id \in 1..uuids)
    /\ [][uuids' # uuids =>
             /\ request'.request.session_id # request'.user_prompt_id.v
             /\ request'.request.session_id \notin 1..uuids
             /\ request'.user_prompt_id.v \notin 1..uuids]_vars

C16_Witness ==
    /\ op \in GenerationOps
    /\ uuids = 4
    /\ request.request.session_id = 3
    /\ request.user_prompt_id = Some(4)

\* C17: auth_token never changes; project_id changes only in
\* set_project_id and onboard_user; model changes only in with_model;
\* generate_content, generate_content_stream and load_code_assist leave all
\* three as they were, whatever they return.
C17_SessionStateFrame ==
    [][/\ auth_token' = auth_token
       /\ project_id' # project_id =>
              op' \in {"set_project_id", "onboard_user"}
       /\ model' # model => op' = "with_model"
       /\ op' \in GenerationOps \cup {"load_code_assist"} =>
              <<auth_token, project_id, model>>'
                  = <<auth_token, project_id, model>>]_vars

C17_Witness ==
    /\ op = "load_code_assist"
    /\ result.returned /\ result.ok
    /\ result.value # project_id

\* C18: load_code_assist, generate_content and generate_content_stream send
\* exactly one request per call, whatever the outcome, and consuming the
\* stream sends none.
C18_OneRequestPerCall ==
    op \in GenerationOps \cup {"load_code_assist"} =>
        (result.returned /\ log = <<"req">>)

C18_Witness ==
    /\ op = "generate_content"
    /\ reply = Http(200, Garbage)
    /\ ~result.ok
    /\ log = <<"req">>

\* the project identifier the claim of C19 expects in the envelope of a
\* generation call issued in this state
EstablishedProject ==
    CASE op = "onboard_user" ->
            IF result.returned /\ result.ok /\ RecordDone /\ RecordHasProject
            THEN RecordProject
            ELSE request.cloudaicompanion_project.v
      [] op = "set_project_id" /\ applied.some -> applied.v
      [] op = "load_code_assist" -> request.cloudaicompanion_project.v
      [] OTHER -> project_id

\* C19: the project of a generation envelope is the one established last:
\* the identifier confirmed by a completed onboarding, else the handshake
\* result the caller applied, else the identifier held before; a failed
\* handshake or onboarding leaves the identifier held before that step.
C19_EnvelopeCarriesEstablishedProject ==
    [][(pc = "idle" /\ op' \in GenerationOps /\ uuids' # uuids) =>
           request'.project = EstablishedProject]_vars

\* m without one leading "models/"
StripOnce(m) ==
    IF HasModelsPrefix(m) THEN [k \in 1..(Len(m) - 7) |-> m[k + 7]] ELSE m

\* C20: with_model can be called whenever no call is in flight; it leaves
\* project_id and auth_token alone; the model changes in no other way, and
\* every generation call carries the client's model with its prefix
\* removed.
C20_WithModelTakesEffect ==
    /\ [](pc = "idle" => \A m \in ModelNames : ENABLED with_model(m))
    /\ [][/\ op' = "with_model" =>
                 (project_id' = project_id /\ auth_token' = auth_token)
          /\ model' # model => op' = "with_model"
          /\ (op' \in GenerationOps /\ uuids' # uuids) =>
                 (request'.model = StripOnce(model) /\ model' = model)]_vars

C20_Witness ==
    /\ op \in GenerationOps
    /\ model = <<"x", "/">> \o ModelsPrefix \o <<"g", "2">>
    /\ request.model = model
    /\ uuids = 4

\* C22: while onboard_user has not returned Ok, and in particular when it
\* has returned an error (on the first request or on a resend), project_id
\* is the identifier the client held when the call began, the one its
\* request carries: project_id is written only after the loop has ended
\* without error.
C22_ErrorKeepsProject ==
    (op = "onboard_user" /\ (~result.returned \/ ~result.ok)) =>
        project_id = request.cloudaicompanion_project.v

\* an error on a resend, after a record that carried another identifier
C22_Witness ==
    /\ op = "onboard_user"
    /\ result.returned /\ ~result.ok
    /\ attempts >= 1
    /\ lro.response.some
    /\ lro.response.v.cloudaicompanion_project.some
    /\ lro.response.v.cloudaicompanion_project.v.id # project_id

\* an envelope without its two identifiers: the model, the project, whether
\* a user prompt id is present, and the request body without session_id
WithoutIdentifiers(envelope) ==
    [model |-> envelope.model,
     project |-> envelope.project,
     has_user_prompt_id |-> envelope.user_prompt_id.some,
     request |-> [k \in DOMAIN envelope.request \ {"session_id"} |->
                     envelope.request[k]]]

\* C21: for the same session state and the same caller request,
\* generate_content and generate_content_stream build envelopes that are
\* equal up to the two fresh identifiers, and the envelope either call has
\* sent carries the client's model without its prefix, the client's project,
\* a user prompt id, and a request body that is the caller's request with
\* only a session_id field added.
C21_SharedEnvelope ==
    /\ \A req \in GenerateContentRequests :
          WithoutIdentifiers(
              CodeAssistEnvelope(model, project_id, req, uuids)) =
          WithoutIdentifiers(
              CodeAssistEnvelopeStream(model, project_id, req, uuids))
    /\ op \in GenerationOps =>
          /\ request.model = StripOnce(model)
          /\ request.project = project_id
          /\ request.user_prompt_id.some
          /\ DOMAIN request.request = DOMAIN arg.v \cup {"session_id"}
          /\ \A k \in DOMAIN arg.v : request.request[k] = arg.v[k]

\* a second call, streaming, for a request with two fields
C21_Witness ==
    /\ op = "generate_content_stream"
    /\ uuids = 4
    /\ arg = Some([contents |-> "c2", system_instruction |-> "s1"])
    /\ request.request.system_instruction = "s1"
    /\ request.request.session_id = 3
    /\ model # DefaultModel

\* C23: the returned sequence is driven by its consumer.  Events are pulled
\* from the wire only by a poll, and a poll gives the consumer one thing,
\* the next element or the end, and sends no request; until the end is
\* reached the last event pulled is the one whose element the consumer
\* received last, so nothing is read ahead: a consumer that has taken k
\* elements and stops leaves every later event undecoded.
C23_ConsumerDriven ==
    /\ []((stream.open /\ ~stream.ended) =>
             IF stream.wire = <<>>
             THEN stream.out = <<>>
             ELSE /\ stream.out # <<>>
                  /\ stream_map(stream.wire[Len(stream.wire)]) =
                         Some(stream.out[Len(stream.out)]))
    /\ [][(stream.open /\ stream'.open /\ uuids' = uuids
                /\ stream' # stream) =>
             /\ ~stream.ended
             /\ IF stream'.ended
                THEN stream'.out = stream.out
                ELSE /\ Len(stream'.out) = Len(stream.out) + 1
                     /\ SubSeq(stream'.out, 1, Len(stream.out)) = stream.out
             /\ SubSeq(stream'.wire, 1, Len(stream.wire)) = stream.wire
             /\ log' = log
             /\ request' = request]_vars

\* the consumer has taken two elements; a terminator between their events
\* was pulled and dropped by the second poll, and one request was sent
C23_Witness ==
    /\ stream.open /\ ~stream.ended
    /\ stream.wire = <<Event(EnvelopeText("r1")), Event(Terminator),
                       Event(EnvelopeText("r2"))>>
    /\ stream.out = <<Ok("r1"), Ok("r2")>>
    /\ log = <<"req">>

(***************************************************************************)
(* logger.rs: init, GlobalLogger::log and pop_logs, each split at the      *)
(* points where another thread can run.                                    *)
(***************************************************************************)
\* init, the first call: LOG_RECEIVER.set succeeds and stores the receiver
init_set ==
    /\ ~LOG_RECEIVER
    /\ LOG_RECEIVER' = TRUE
    /\ UNCHANGED <<client_vars, boxed_logger, channel, sender, receiver,
                   console, tpc, records, logs, before, received, returned>>

\* init, the first call: the logger is built and installed
init_install(filter) ==
    /\ LOG_RECEIVER
    /\ ~boxed_logger.installed
    /\ boxed_logger' = GlobalLogger(filter)
    /\ UNCHANGED <<client_vars, LOG_RECEIVER, channel, sender, receiver,
                   console, tpc, records, logs, before, received, returned>>

\* init, a later call: LOG_RECEIVER.set fails, the new channel is dropped
init_again ==
    /\ LOG_RECEIVER
    /\ UNCHANGED vars

\* self.inner.enabled(record.metadata())
enabled(level) == level <= boxed_logger.filter

\* mutant: warnings are not captured
captures_errors_only(level) == level < Level.Warn

\* record.level() <= Level::Warn
captures(level) == level <= Level.Warn

\* the message of the record a logging thread is logging
message(t) == <<t, Len(records[t])>>

\* GlobalLogger::log up to self.sender.lock()
GlobalLogger_log(t, level) ==
    /\ boxed_logger.installed
    /\ tpc[t] = "idle"
    /\ Len(records["t1"]) + Len(records["t2"]) < MaxRecords
    /\ records' = [records EXCEPT ![t] = Append(@, level)]
    /\ console' = IF enabled(level)
                  THEN console \cup {<<t, Len(records[t]) + 1>>}
                  ELSE console
    /\ tpc' = [tpc EXCEPT ![t] = IF captures(level) THEN "lock" ELSE "idle"]
    /\ UNCHANGED <<client_vars, LOG_RECEIVER, boxed_logger, channel, sender,
                   receiver, logs, before, received, returned>>

\* self.sender.lock() returns the guard
lock_sender(t) ==
    /\ tpc[t] = "lock"
    /\ sender = "free"
    /\ sender' = t
    /\ tpc' = [tpc EXCEPT ![t] = "send"]
    /\ UNCHANGED <<client_vars, LOG_RECEIVER, boxed_logger, channel, receiver,
                   console, records, logs, before, received, returned>>

\* sender.send(LogEvent {..}), and the guard is dropped
send(t) ==
    /\ tpc[t] = "send"
    /\ channel' = Append(channel,
                         LogEvent(records[t][Len(records[t])], message(t)))
    /\ sender' = "free"
    /\ tpc' = [tpc EXCEPT ![t] = "idle"]
    /\ UNCHANGED <<client_vars, LOG_RECEIVER, boxed_logger, receiver, console,
                   records, logs, before, received, returned>>

\* the pop_logs calls begun so far
pops == Len(returned) + Cardinality({u \in Poppers : tpc[u] # "idle"})

\* the set of the elements of a sequence
Range(seq) == {seq[i] : i \in 1..Len(seq)}

\* pop_logs up to rx_mutex.lock(): without a receiver it returns at once
pop_logs(u) ==
    /\ tpc[u] = "idle"
    /\ pops < MaxPops
    /\ logs' = [logs EXCEPT ![u] = <<>>]
    /\ before' = [before EXCEPT ![u] = Range(channel)]
    /\ tpc' = [tpc EXCEPT ![u] = IF LOG_RECEIVER THEN "lock" ELSE "return"]
    /\ UNCHANGED <<client_vars, LOG_RECEIVER, boxed_logger, channel, sender,
                   receiver, console, records, received, returned>>

\* rx_mutex.lock() returns the guard
lock_receiver(u) ==
    /\ tpc[u] = "lock"
    /\ receiver = "free"
    /\ receiver' = u
    /\ tpc' = [tpc EXCEPT ![u] = "recv"]
    /\ UNCHANGED <<client_vars, LOG_RECEIVER, boxed_logger, channel, sender,
                   console, records, logs, before, received, returned>>

\* one turn of `while let Ok(log) = rx.try_recv()`: an event is pushed, or
\* the queue is empty, the loop ends and the guard is dropped
try_recv(u) ==
    /\ tpc[u] = "recv"
    /\ IF channel # <<>>
       THEN /\ logs' = [logs EXCEPT ![u] = Append(@, Head(channel))]
            /\ received' = Append(received, Head(channel))
            /\ channel' = Tail(channel)
            /\ UNCHANGED <<receiver, tpc>>
       ELSE /\ receiver' = "free"
            /\ tpc' = [tpc EXCEPT ![u] = "return"]
            /\ UNCHANGED <<logs, received, channel>>
    /\ UNCHANGED <<client_vars, LOG_RECEIVER, boxed_logger, sender, console,
                   records, before, returned>>

\* pop_logs returns `logs`
pop_return(u) ==
    /\ tpc[u] = "return"
    /\ returned' = Append(returned, logs[u])
    /\ logs' = [logs EXCEPT ![u] = <<>>]
    /\ before' = [before EXCEPT ![u] = {}]
    /\ tpc' = [tpc EXCEPT ![u] = "idle"]
    /\ UNCHANGED <<client_vars, LOG_RECEIVER, boxed_logger, channel, sender,
                   receiver, console, records, received>>

LoggerInit == Init /\ project_id = "p1"

LoggerNext ==
    \/ init_set
    \/ \E filter \in Filters : init_install(filter)
    \/ init_again
    \/ \E t \in Loggers, level \in Levels : GlobalLogger_log(t, level)
    \/ \E t \in Loggers : lock_sender(t)
    \/ \E t \in Loggers : send(t)
    \/ \E u \in Poppers : pop_logs(u)
    \/ \E u \in Poppers : lock_receiver(u)
    \/ \E u \in Poppers : try_recv(u)
    \/ \E u \in Poppers : pop_return(u)

LoggerSpec == LoggerInit /\ [][LoggerNext]_vars

RECURSIVE Flatten(_)
\* the concatenation of a sequence of sequences
Flatten(seqs) ==
    IF seqs = <<>> THEN <<>> ELSE Head(seqs) \o Flatten(Tail(seqs))

\* every event that is in the queue, in the hands of a pop_logs call, or
\* in a value a pop_logs call returned
Held == channel \o logs["u1"] \o logs["u2"] \o Flatten(returned)

\* how often the event of a message occurs in a sequence of events
Occurrences(seq, msg) ==
    Cardinality({k \in 1..Len(seq) : seq[k].message = msg})

\* a thread's records occur in a sequence of events in the order logged
InLoggedOrder(seq) ==
    \A j, k \in 1..Len(seq) :
        (j < k /\ seq[j].message[1] = seq[k].message[1]) =>
            seq[j].message[2] < seq[k].message[2]

\* the call of thread t that logged its i-th record has returned
Logged(t, i) == i < Len(records[t]) \/ tpc[t] = "idle"

====
